---- MODULE Spec2Model ----
(***************************************************************************)
(* Model of combining_sample_stdev.py: the base statistics (arithmetic     *)
(* mean, sample variance, sample standard deviation) of a sequence of      *)
(* observations, and the combination algebra over sampled_value summaries. *)
(*                                                                         *)
(* Numbers.  Observations, quantities and variances are Python floats;    *)
(* sample counts are Python ints.  A number is modelled as an exact       *)
(* rational [kind |-> "float", num, den] in lowest terms with den > 0, so  *)
(* rounding error is abstracted away and "equal" stands for "equal up to   *)
(* floating-point tolerance".  A raised exception is a value whose kind is *)
(* the exception's name; math.sqrt of a non-negative v is the symbolic     *)
(* value [kind |-> "sqrt", num, den] (sqrt is injective there).  Python's  *)
(* None is the value None.                                                 *)
(*                                                                         *)
(* The source is Python 2, where / floors when both operands are ints.     *)
(* With float observations, quantities and variances every division has a  *)
(* float operand, except the division of an empty sum (int 0), whose       *)
(* quotient is 0 either way; so / is modelled as true division.            *)
(***************************************************************************)
EXTENDS Integers, Sequences, FiniteSets, TLC

\* ------------------------------------------------------------------ bounds

\* Largest number of observations in all groups together.
MaxObs == 5
\* Largest number of summaries in a list handed to the combination algebra.
MaxGroups == 2

\* ------------------------------------------------------------ arithmetic

Abs(k) == IF k < 0 THEN -k ELSE k

RECURSIVE GCD(_, _)
GCD(a, b) == IF b = 0 THEN a ELSE GCD(b, a % b)

\* The float num/den (den # 0), in lowest terms with a positive denominator.
Float(a, b) ==
  LET g == GCD(Abs(a), Abs(b))
      s == IF b < 0 THEN -1 ELSE 1
  IN  [kind |-> "float", num |-> (s * a) \div g, den |-> (s * b) \div g]

\* A Python int, as a number.
Int_(k) == [kind |-> "float", num |-> k, den |-> 1]

None == [kind |-> "None", num |-> 0, den |-> 1]

Raise(e) == [kind |-> e, num |-> 0, den |-> 1]

Raised(x) == x.kind \in {"ZeroDivisionError", "ValueError"}

\* a + b
Add(a, b) ==
  IF Raised(a) THEN a ELSE IF Raised(b) THEN b
  ELSE Float(a.num * b.den + b.num * a.den, a.den * b.den)

\* a - b
Sub(a, b) ==
  IF Raised(a) THEN a ELSE IF Raised(b) THEN b
  ELSE Float(a.num * b.den - b.num * a.den, a.den * b.den)

\* a * b
Mul(a, b) ==
  IF Raised(a) THEN a ELSE IF Raised(b) THEN b
  ELSE Float(a.num * b.num, a.den * b.den)

\* a / b: Python raises ZeroDivisionError for a zero divisor, int or float.
Div(a, b) ==
  IF Raised(a) THEN a ELSE IF Raised(b) THEN b
  ELSE IF b.num = 0 THEN Raise("ZeroDivisionError")
  ELSE Float(a.num * b.den, a.den * b.num)

\* a ** 2
Pow2(a) == Mul(a, a)

\* math.sqrt(v): ValueError (math domain error) for a negative argument.
sqrt(v) ==
  IF Raised(v) THEN v
  ELSE IF v.num < 0 THEN Raise("ValueError")
  ELSE [kind |-> "sqrt", num |-> v.num, den |-> v.den]

\* The builtin sum over a sequence of numbers, left to right from int 0.
RECURSIVE sum(_)
sum(S) == IF S = <<>> THEN Int_(0) ELSE Add(sum(SubSeq(S, 1, Len(S) - 1)), S[Len(S)])

\* ------------------------------------------------------------ the program

\* sampled_value.__init__
sampled_value(quantity, variance, samples, unit) ==
  [quantity |-> quantity, variance |-> variance, samples |-> samples, unit |-> unit]

arithmetic_mean(X) == Div(sum(X), Int_(Len(X)))

\* Variant: the population variance, dividing by n instead of n - 1.
sample_variance_population(X, u) ==
  LET u1 == IF u = None THEN arithmetic_mean(X) ELSE u
  IN  IF Raised(u1) THEN u1
      ELSE Div(sum([i \in 1..Len(X) |-> Pow2(Sub(X[i], u1))]), Int_(Len(X)))

sample_variance(X, u) ==
  LET u1 == IF u = None THEN arithmetic_mean(X) ELSE u
  IN  IF Raised(u1) THEN u1
      ELSE Div(sum([i \in 1..Len(X) |-> Pow2(Sub(X[i], u1))]), Int_(Len(X) - 1))

sample_standard_deviation(X, u, v) ==
  LET u1 == IF u = None THEN arithmetic_mean(X) ELSE u
      v1 == IF v = None THEN sample_variance(X, u1) ELSE v
  IN  IF Raised(u1) THEN u1 ELSE sqrt(v1)

\* Variant: the number of groups instead of the number of samples.
combined_sample_size_group_count(As) == Int_(Len(As))

\* Variant: only the last group's sample count.
combined_sample_size_last(As) ==
  IF As = <<>> THEN Int_(0) ELSE Int_(As[Len(As)].samples)

combined_sample_size(As) == sum([i \in 1..Len(As) |-> Int_(As[i].samples)])

\* Variant: every group's mean weighted equally, whatever its sample count.
combined_arithmetic_mean_unweighted(As, n) ==
  Div(sum([i \in 1..Len(As) |-> As[i].quantity]), Int_(Len(As)))

combined_arithmetic_mean(As, n) ==
  LET n1 == IF n = None THEN combined_sample_size(As) ELSE n
  IN  Div(sum([i \in 1..Len(As) |-> Mul(Int_(As[i].samples), As[i].quantity)]), n1)

\* Variant: the dispersion of the group means around u is left out.
combined_sample_variance_within_only(As, n, u) ==
  LET n1 == IF n = None THEN combined_sample_size(As) ELSE n
      u1 == IF u = None THEN combined_arithmetic_mean(As, n1) ELSE u
  IN  IF Raised(u1) THEN u1
      ELSE Div(sum([i \in 1..Len(As) |->
                     Mul(As[i].variance, Int_(As[i].samples - 1))]),
               Sub(n1, Int_(1)))

\* Variant: the sum is divided by n instead of n - 1.
combined_sample_variance_population(As, n, u) ==
  LET n1 == IF n = None THEN combined_sample_size(As) ELSE n
      u1 == IF u = None THEN combined_arithmetic_mean(As, n1) ELSE u
  IN  IF Raised(u1) THEN u1
      ELSE Div(sum([i \in 1..Len(As) |->
                     Add(Mul(Int_(As[i].samples), Pow2(Sub(As[i].quantity, u1))),
                         Mul(As[i].variance, Int_(As[i].samples - 1)))]),
               n1)

\* Variant: a supplied u is ignored and the mean is always recomputed.
combined_sample_variance_recomputed_mean(As, n, u) ==
  LET n1 == IF n = None THEN combined_sample_size(As) ELSE n
      u1 == combined_arithmetic_mean(As, n1)
  IN  IF Raised(u1) THEN u1
      ELSE Div(sum([i \in 1..Len(As) |->
                     Add(Mul(Int_(As[i].samples), Pow2(Sub(As[i].quantity, u1))),
                         Mul(As[i].variance, Int_(As[i].samples - 1)))]),
               Sub(n1, Int_(1)))

\* Variant: a group's variance is weighted by n_i instead of n_i - 1.
combined_sample_variance_no_bessel(As, n, u) ==
  LET n1 == IF n = None THEN combined_sample_size(As) ELSE n
      u1 == IF u = None THEN combined_arithmetic_mean(As, n1) ELSE u
  IN  IF Raised(u1) THEN u1
      ELSE Div(sum([i \in 1..Len(As) |->
                     Add(Mul(Int_(As[i].samples), Pow2(Sub(As[i].quantity, u1))),
                         Mul(As[i].variance, Int_(As[i].samples)))]),
               Sub(n1, Int_(1)))

\* Variant: the deviation of a group mean from u is not squared.
combined_sample_variance_unsquared(As, n, u) ==
  LET n1 == IF n = None THEN combined_sample_size(As) ELSE n
      u1 == IF u = None THEN combined_arithmetic_mean(As, n1) ELSE u
  IN  IF Raised(u1) THEN u1
      ELSE Div(sum([i \in 1..Len(As) |->
                     Add(Mul(Int_(As[i].samples), Sub(As[i].quantity, u1)),
                         Mul(As[i].variance, Int_(As[i].samples - 1)))]),
               Sub(n1, Int_(1)))

combined_sample_variance(As, n, u) ==
  LET n1 == IF n = None THEN combined_sample_size(As) ELSE n
      u1 == IF u = None THEN combined_arithmetic_mean(As, n1) ELSE u
  IN  IF Raised(u1) THEN u1
      ELSE Div(sum([i \in 1..Len(As) |->
                     Add(Mul(Int_(As[i].samples), Pow2(Sub(As[i].quantity, u1))),
                         Mul(As[i].variance, Int_(As[i].samples - 1)))]),
               Sub(n1, Int_(1)))

combined_sample_standard_deviation(As, n, u, v) ==
  LET n1 == IF n = None THEN combined_sample_size(As) ELSE n
      u1 == IF u = None THEN combined_arithmetic_mean(As, n1) ELSE u
      v1 == IF Raised(u1) THEN u1
            ELSE IF v = None THEN combined_sample_variance(As, n1, u1) ELSE v
  IN  sqrt(v1)

\* ------------------------------------------------------------ input sets

\* Observations, and means, a caller supplies (0, 1 and 2.5).
Values == {Float(0, 1), Float(1, 1), Float(5, 2)}

\* Quantities and variances of caller-supplied summaries.
Quantities == {Float(0, 1), Float(1, 1)}
Variances == {Float(0, 1), Float(1, 1), Float(-1, 1)}

\* The samples fields of caller-supplied summaries.
SampleCounts == {0, 1, 3}

\* The unit tags of caller-supplied summaries ("None" is Python's None).
Units == {"None", "s"}

\* Optional arguments a caller supplies.
NArgs == {None} \cup {Int_(k) : k \in 0..2}
UArgs == {None, Float(1, 1)}
VArgs == {None, Float(1, 1), Float(-1, 1)}

\* The k-th smallest element of a finite set of integers.
Nth(S, k) == CHOOSE x \in S : Cardinality({y \in S : y < x}) = k - 1

\* X cut into contiguous non-empty groups after the positions in C.
Partition(X, C) ==
  LET B == C \cup {0}
      g == Cardinality(B)
  IN  IF X = <<>> THEN <<>>
      ELSE [k \in 1..g |->
             SubSeq(X, Nth(B, k) + 1, IF k = g THEN Len(X) ELSE Nth(B, k + 1))]

\* The concatenation of the groups (a + b, a + b + c).
RECURSIVE Concat(_)
Concat(Xs) ==
  IF Xs = <<>> THEN <<>> ELSE Concat(SubSeq(Xs, 1, Len(Xs) - 1)) \o Xs[Len(Xs)]

\* The summary a caller builds from one group of observations; a group of
\* one observation has no sample variance and carries variance 0.
summary_of(X) ==
  sampled_value(arithmetic_mean(X),
                IF Len(X) = 1 THEN Float(0, 1) ELSE sample_variance(X, None),
                Len(X), "None")

\* ------------------------------------------------------------------ state

VARIABLES
  groups,   \* the groups of raw observations the summaries were built from
  As,       \* the list of sampled_value summaries
  fn,       \* the function called last ("" before any call)
  args,     \* the optional arguments of that call, and the wrapped prefix k
  ret       \* what that call returned or raised

vars == <<groups, As, fn, args, ret>>

Args(n, u, v, k) == [n |-> n, u |-> u, v |-> v, k |-> k]

NoArgs == Args(None, None, None, 0)

\* Summaries built from raw groups, as the caller of the base layer does.
InitRaw ==
  /\ \E L \in 0..MaxObs : \E X \in [1..L -> Values] : \E C \in SUBSET (1..(L - 1)) :
       groups = Partition(X, C)
  /\ As = [i \in 1..Len(groups) |-> summary_of(groups[i])]
  /\ fn = "" /\ args = NoArgs /\ ret = None

\* Summaries supplied by the caller as they are; one unit for the list.
InitSummaries ==
  /\ groups = <<>>
  /\ \E g \in 0..MaxGroups : \E t \in Units :
       \E Q \in [1..g -> Quantities] : \E V \in [1..g -> Variances] :
         \E N \in [1..g -> SampleCounts] :
           As = [i \in 1..g |-> sampled_value(Q[i], V[i], N[i], t)]
  /\ fn = "" /\ args = NoArgs /\ ret = None

Call_arithmetic_mean ==
  /\ fn = ""
  /\ fn' = "arithmetic_mean" /\ args' = NoArgs
  /\ ret' = arithmetic_mean(Concat(groups))
  /\ UNCHANGED <<groups, As>>

Call_sample_variance ==
  /\ fn = ""
  /\ \E u \in {None} \cup Values :
       /\ fn' = "sample_variance" /\ args' = Args(None, u, None, 0)
       /\ ret' = sample_variance(Concat(groups), u)
       /\ UNCHANGED <<groups, As>>

Call_sample_standard_deviation ==
  /\ fn = ""
  /\ \E u \in {None} \cup Values : \E v \in VArgs :
       /\ fn' = "sample_standard_deviation" /\ args' = Args(None, u, v, 0)
       /\ ret' = sample_standard_deviation(Concat(groups), u, v)
       /\ UNCHANGED <<groups, As>>

Call_combined_sample_size ==
  /\ fn = ""
  /\ fn' = "combined_sample_size" /\ args' = NoArgs
  /\ ret' = combined_sample_size(As)
  /\ UNCHANGED <<groups, As>>

Call_combined_arithmetic_mean ==
  /\ fn = ""
  /\ \E n \in NArgs :
       /\ fn' = "combined_arithmetic_mean" /\ args' = Args(n, None, None, 0)
       /\ ret' = combined_arithmetic_mean(As, n)
       /\ UNCHANGED <<groups, As>>

Call_combined_sample_variance ==
  /\ fn = ""
  /\ \E n \in NArgs : \E u \in UArgs :
       /\ fn' = "combined_sample_variance" /\ args' = Args(n, u, None, 0)
       /\ ret' = combined_sample_variance(As, n, u)
       /\ UNCHANGED <<groups, As>>

Call_combined_sample_standard_deviation ==
  /\ fn = ""
  /\ \E n \in NArgs : \E u \in UArgs : \E v \in VArgs :
       /\ v # None => (n = None /\ u = None)
       /\ n # None => u = None
       /\ fn' = "combined_sample_standard_deviation" /\ args' = Args(n, u, v, 0)
       /\ ret' = combined_sample_standard_deviation(As, n, u, v)
       /\ UNCHANGED <<groups, As>>

\* The first k summaries pooled into one new summary, followed by the rest.
Wrapped(k) ==
  LET G == SubSeq(As, 1, k)
  IN  <<sampled_value(combined_arithmetic_mean(G, None),
                      combined_sample_variance(G, None, None),
                      combined_sample_size(G).num, "None")>>
        \o SubSeq(As, k + 1, Len(As))

\* Pooling raises, and no summary is built, unless the prefix has a mean and a variance.
CanWrap(k) ==
  /\ ~Raised(combined_arithmetic_mean(SubSeq(As, 1, k), None))
  /\ ~Raised(combined_sample_variance(SubSeq(As, 1, k), None, None))

Call_wrapped_mean ==
  /\ fn = ""
  /\ \E k \in 1..Len(As) :
       /\ CanWrap(k)
       /\ fn' = "wrapped_mean" /\ args' = Args(None, None, None, k)
       /\ ret' = combined_arithmetic_mean(Wrapped(k), None)
       /\ UNCHANGED <<groups, As>>

Call_wrapped_variance ==
  /\ fn = ""
  /\ \E k \in 1..Len(As) :
       /\ CanWrap(k)
       /\ fn' = "wrapped_variance" /\ args' = Args(None, None, None, k)
       /\ ret' = combined_sample_variance(Wrapped(k), None, None)
       /\ UNCHANGED <<groups, As>>

NextRaw ==
  \/ Call_arithmetic_mean
  \/ Call_sample_variance
  \/ Call_sample_standard_deviation
  \/ Call_combined_sample_size
  \/ Call_combined_arithmetic_mean
  \/ Call_combined_sample_variance
  \/ Call_combined_sample_standard_deviation

NextSummaries ==
  \/ Call_combined_sample_size
  \/ Call_combined_arithmetic_mean
  \/ Call_combined_sample_variance
  \/ Call_combined_sample_standard_deviation
  \/ Call_wrapped_mean
  \/ Call_wrapped_variance

\* The base layer and the combination of summaries built from raw groups.
Spec == InitRaw /\ [][NextRaw]_vars

\* The combination algebra on caller-supplied summaries.
SpecSummaries == InitSummaries /\ [][NextSummaries]_vars

\* ----------------------------------------------------------------- claims

\* The flat sequence of all observations.
X == Concat(groups)

ZeroDivisionError == Raise("ZeroDivisionError")

\* A call that supplied none of n, u, v.
Plain == args.n = None /\ args.u = None /\ args.v = None

\* The sum of the samples fields, as an integer.
RECURSIVE SamplesTotal(_)
SamplesTotal(S) ==
  IF S = <<>> THEN 0 ELSE SamplesTotal(SubSeq(S, 1, Len(S) - 1)) + S[Len(S)].samples

\* The combined sample count a call used: the supplied n, or the computed one.
UsedN == IF args.n = None THEN SamplesTotal(As) ELSE args.n.num

\* Every reordering of a list of summaries.
Reorderings(S) ==
  {[i \in 1..Len(S) |-> S[p[i]]] : p \in Permutations(1..Len(S))}

\* C1: for observations X (two or more) split into non-empty groups, the
\* combined arithmetic mean of the per-group summaries, n not supplied,
\* equals arithmetic_mean(X).
C1_MeanEquivalence ==
  (fn = "combined_arithmetic_mean" /\ args.n = None /\ Len(X) >= 2)
    => ret = arithmetic_mean(X)

C1_Witness ==
  /\ fn = "combined_arithmetic_mean" /\ args.n = None
  /\ Len(groups) = 2 /\ Len(groups[1]) = 1 /\ Len(groups[2]) = 3
  /\ As[1].quantity # As[2].quantity
  /\ ret = arithmetic_mean(X) /\ ret.kind = "float"

\* C2: for observations X (two or more) split into non-empty groups, a group
\* of one carrying variance 0, the combined sample variance of the per-group
\* summaries equals sample_variance(X), and the combined sample standard
\* deviation equals sample_standard_deviation(X).
C2_SpreadEquivalence ==
  /\ (fn = "combined_sample_variance" /\ Plain /\ Len(X) >= 2)
       => ret = sample_variance(X, None)
  /\ (fn = "combined_sample_standard_deviation" /\ Plain /\ Len(X) >= 2)
       => ret = sample_standard_deviation(X, None, None)

C2_Witness ==
  /\ fn = "combined_sample_standard_deviation" /\ Plain
  /\ Len(groups) = 3 /\ Len(groups[1]) = 1 /\ Len(groups[2]) = 2
  /\ As[1].quantity # As[2].quantity /\ As[2].variance.num > 0
  /\ ret = sample_standard_deviation(X, None, None) /\ ret.kind = "sqrt" /\ ret.num > 0

\* C3: combined_sample_variance on summaries whose sample counts sum to
\* exactly 1 raises ZeroDivisionError, whether or not u is supplied; it
\* never returns a number.
C3_TotalOneFails ==
  (fn = "combined_sample_variance" /\ args.n = None /\ SamplesTotal(As) = 1)
    => ret = ZeroDivisionError

C3_Witness ==
  /\ fn = "combined_sample_variance" /\ args.n = None /\ args.u # None
  /\ Len(As) = 2 /\ SamplesTotal(As) = 1
  /\ ret = ZeroDivisionError

\* C4 as stated: combined_sample_variance raises ZeroDivisionError whenever
\* the combined sample count n it uses is <= 1, computed or supplied.
C4_Original ==
  (fn = "combined_sample_variance" /\ UsedN <= 1) => ret = ZeroDivisionError

\* C4 as amended: combined_sample_variance raises ZeroDivisionError when the
\* n it uses is 1 (computed or supplied), and when that n is 0 and u is not
\* supplied (the mean's division by n fails); with n = 0 and u supplied it
\* returns a number, the sum divided by -1.
C4_FailsAtOne ==
  /\ (fn = "combined_sample_variance" /\ UsedN = 1) => ret = ZeroDivisionError
  /\ (fn = "combined_sample_variance" /\ UsedN = 0 /\ args.u = None)
       => ret = ZeroDivisionError
  /\ (fn = "combined_sample_variance" /\ UsedN = 0 /\ args.u # None)
       => ret.kind = "float"

C4_Witness ==
  /\ fn = "combined_sample_variance" /\ args.n = Int_(0) /\ args.u # None
  /\ Len(As) = 2 /\ SamplesTotal(As) >= 2
  /\ ret.kind = "float" /\ ret.num < 0

\* C5 as stated: for any non-empty X, the one-element list holding X's
\* summary is mapped by combined_arithmetic_mean to the summary's mean and
\* by combined_sample_variance to the summary's variance.
C5_Original ==
  /\ (fn = "combined_arithmetic_mean" /\ args.n = None /\ Len(groups) = 1)
       => ret = As[1].quantity
  /\ (fn = "combined_sample_variance" /\ Plain /\ Len(groups) = 1)
       => ret = As[1].variance

\* C5 as amended: for any X, the one-element list holding X's summary is
\* mapped by combined_arithmetic_mean to the summary's mean; by
\* combined_sample_variance it is mapped to the summary's variance when
\* len(X) >= 2, and raises ZeroDivisionError when len(X) = 1.
C5_TrivialGrouping ==
  /\ (fn = "combined_arithmetic_mean" /\ args.n = None /\ Len(groups) = 1)
       => ret = As[1].quantity
  /\ (fn = "combined_sample_variance" /\ Plain /\ Len(groups) = 1 /\ Len(X) >= 2)
       => ret = As[1].variance
  /\ (fn = "combined_sample_variance" /\ Plain /\ Len(groups) = 1 /\ Len(X) = 1)
       => ret = ZeroDivisionError

C5_Witness ==
  /\ fn = "combined_sample_variance" /\ Plain
  /\ Len(groups) = 1 /\ Len(X) = 3
  /\ As[1].variance.num > 0 /\ ret = As[1].variance

\* C6: each of the four combination functions returns the same result
\* (value or exception) on every reordering of the list of summaries.
C6_OrderIndependence ==
  \A P \in Reorderings(As) :
    /\ fn = "combined_sample_size" => ret = combined_sample_size(P)
    /\ fn = "combined_arithmetic_mean" => ret = combined_arithmetic_mean(P, args.n)
    /\ fn = "combined_sample_variance"
         => ret = combined_sample_variance(P, args.n, args.u)
    /\ fn = "combined_sample_standard_deviation"
         => ret = combined_sample_standard_deviation(P, args.n, args.u, args.v)

C6_Witness ==
  /\ fn = "combined_sample_variance" /\ Plain
  /\ Len(As) = 2 /\ As[1] # As[2]
  /\ As[1].samples # As[2].samples /\ As[1].quantity # As[2].quantity
  /\ As[1].variance # As[2].variance
  /\ ret.kind = "float"
  /\ ret = combined_sample_variance(<<As[2], As[1]>>, None, None)

\* C7: combined_sample_size returns the sum of the samples fields, whatever
\* the quantities, variances and units, and 0 for the empty list.
C7_SampleSize ==
  fn = "combined_sample_size"
    => /\ ret = Int_(SamplesTotal(As))
       /\ As = <<>> => ret = Int_(0)

C7_Witness ==
  /\ fn = "combined_sample_size"
  /\ Len(As) = 2 /\ As[1].samples = 3 /\ As[2].samples = 1
  /\ As[1].unit = "s" /\ As[1].quantity # As[2].quantity
  /\ ret = Int_(4)

\* C8: arithmetic_mean of an empty sequence raises ZeroDivisionError, and
\* sample_variance of a one-element sequence raises ZeroDivisionError whether
\* or not the mean is supplied.
C8_BaseFailures ==
  /\ (fn = "arithmetic_mean" /\ X = <<>>) => ret = ZeroDivisionError
  /\ (fn = "sample_variance" /\ Len(X) = 1) => ret = ZeroDivisionError

C8_Witness ==
  /\ fn = "sample_variance" /\ args.u # None /\ Len(X) = 1
  /\ X[1] # args.u
  /\ ret = ZeroDivisionError

NonNegative(a) == a.kind = "float" /\ a.num >= 0

\* Every variance is >= 0 and every sample count is >= 1.
WellFormed == \A i \in 1..Len(As) : NonNegative(As[i].variance) /\ As[i].samples >= 1

\* C10: on summaries with variance >= 0 and samples >= 1 each and combined
\* sample count >= 2, n not supplied, combined_sample_variance returns a
\* value >= 0 for any u, and combined_sample_standard_deviation does not
\* raise the square root's ValueError.
C10_NonNegative ==
  /\ (fn = "combined_sample_variance" /\ args.n = None /\ WellFormed
        /\ SamplesTotal(As) >= 2)
       => NonNegative(ret)
  /\ (fn = "combined_sample_standard_deviation" /\ args.n = None /\ args.v = None
        /\ WellFormed /\ SamplesTotal(As) >= 2)
       => ret.kind = "sqrt"

C10_Witness ==
  /\ fn = "combined_sample_standard_deviation" /\ args.n = None /\ args.v = None
  /\ args.u # None /\ WellFormed /\ Len(As) = 2
  /\ As[1].quantity # As[2].quantity
  /\ ret.kind = "sqrt" /\ ret.num > 0

====
